---------------------------- MODULE Spec2Model ----------------------------
(***************************************************************************)
(* The display modules of cc-statusline (modules/model.py and              *)
(* modules/time_modules.py): ModelModule, PlanModule, ContextPercentModule,*)
(* ContextBarModule, ResetTimerModule and BlockUsageModule.                *)
(*                                                                         *)
(* One module instance is constructed (Init picks its class) and then      *)
(* driven through the Module Contract: set_context, refresh, get_output,   *)
(* is_available, plus direct calls of the private helpers the unit tests   *)
(* call.  Strings are sequences of one-character strings; Python floats    *)
(* are IEEE-754 binary64 values computed bit by bit.                       *)
(***************************************************************************)
EXTENDS Integers, Sequences, FiniteSets

(***************************************************************************)
(* Python float arithmetic (binary64, round-to-nearest-even).              *)
(* A float is [s, m, e]: sign s, mantissa m (MantBits bits, most           *)
(* significant first, m[1] = 1) and the exponent e of its last bit, so the *)
(* value is s * m * 2^e.  Zero has the empty mantissa.                     *)
(***************************************************************************)
MantBits == 53

FZero == [s |-> 1, m |-> <<>>, e |-> 0]

Abs(n) == IF n < 0 THEN -n ELSE n

RECURSIVE Pow2(_)
Pow2(k) == IF k <= 0 THEN 1 ELSE 2 * Pow2(k - 1)

Zeros(k) == [i \in 1..k |-> 0]

RECURSIVE ToBits(_)
ToBits(n) == IF n <= 0 THEN <<>> ELSE Append(ToBits(n \div 2), n % 2)

RECURSIVE BitsToInt(_)
BitsToInt(bits) ==
    IF bits = <<>> THEN 0
    ELSE 2 * BitsToInt(SubSeq(bits, 1, Len(bits) - 1)) + bits[Len(bits)]

\* bits + 1, as [m, carry]: carry = 1 when every bit was 1.
IncBits(bits) ==
    LET zs == {i \in 1..Len(bits) : bits[i] = 0} IN
    IF zs = {} THEN [m |-> <<1>> \o Zeros(Len(bits) - 1), carry |-> 1]
    ELSE LET j == CHOOSE i \in zs : \A k \in zs : k <= i IN
         [m |-> [i \in 1..Len(bits) |->
                    IF i < j THEN bits[i] ELSE IF i = j THEN 1 ELSE 0],
          carry |-> 0]

\* The exact value q * 2^e (+ something below the last bit when sticky),
\* Len(q) >= MantBits and q[1] = 1, rounded to nearest, ties to even.
RoundToMant(s, q, e, sticky) ==
    LET L     == Len(q)
        keep  == SubSeq(q, 1, MantBits)
        guard == IF L > MantBits THEN q[MantBits + 1] ELSE 0
        rest  == sticky \/ \E i \in (MantBits + 2)..L : q[i] = 1
        up    == guard = 1 /\ (rest \/ keep[MantBits] = 1)
        inc   == IncBits(keep)
        e1    == e + (L - MantBits)
    IN  IF up THEN [s |-> s, m |-> inc.m, e |-> e1 + inc.carry]
        ELSE [s |-> s, m |-> keep, e |-> e1]

\* bits, with zeros in front up to k bits
PadTo(bits, k) == Zeros(k - Len(bits)) \o bits

\* bits, without the zeros in front
StripZeros(bits) ==
    LET ones == {i \in 1..Len(bits) : bits[i] = 1} IN
    IF ones = {} THEN <<>>
    ELSE SubSeq(bits, CHOOSE i \in ones : \A k \in ones : i <= k, Len(bits))

\* Long division of the bit string by d > 0, eight bits a step, continued with
\* zero bits until the quotient q has MantBits + 2 significant bits: q is the
\* integer part of bits * 2^extra / d, sticky says whether a remainder is left.
RECURSIVE DivStep(_, _, _, _, _)
DivStep(bits, i, d, r, q) ==
    IF i >= Len(bits) /\ Len(q) >= MantBits + 2
    THEN [q |-> q, extra |-> i - Len(bits), sticky |-> r # 0]
    ELSE LET chunk == [k \in 1..8 |-> IF i + k <= Len(bits) THEN bits[i + k] ELSE 0]
             t     == r * 256 + BitsToInt(chunk)
         IN  DivStep(bits, i + 8, d, t % d,
                     StripZeros(q \o PadTo(ToBits(t \div d), 8)))

\* bits * c, exactly, for a small c > 0: eight bits a step from the last bit
\* bits[hi] down.
RECURSIVE MulStep(_, _, _, _, _)
MulStep(bits, hi, c, carry, acc) ==
    IF hi <= 0 THEN ToBits(carry) \o acc
    ELSE LET lo == IF hi > 8 THEN hi - 7 ELSE 1
             k  == hi - lo + 1
             t  == BitsToInt(SubSeq(bits, lo, hi)) * c + carry
         IN  MulStep(bits, lo - 1, c, t \div Pow2(k),
                     PadTo(ToBits(t % Pow2(k)), k) \o acc)

\* float(n) for an int n that fits the mantissa.
FromInt(n) ==
    IF n = 0 THEN FZero
    ELSE LET b == ToBits(Abs(n)) IN
         [s |-> IF n < 0 THEN -1 ELSE 1,
          m |-> b \o Zeros(MantBits - Len(b)),
          e |-> Len(b) - MantBits]

\* x / d for a float x and an int d > 0.
FDivInt(x, d) ==
    IF x.m = <<>> THEN FZero
    ELSE LET r == DivStep(x.m, 0, d, 0, <<>>)
         IN  RoundToMant(x.s, r.q, x.e - r.extra, r.sticky)

\* x * c for a float x and an int c > 0.
FMulInt(x, c) ==
    IF x.m = <<>> THEN FZero
    ELSE RoundToMant(x.s, MulStep(x.m, Len(x.m), c, 0, <<>>), x.e, FALSE)

\* int(x): truncation toward zero.
FTrunc(x) ==
    IF x.m = <<>> \/ MantBits + x.e <= 0 THEN 0
    ELSE IF x.e >= 0 THEN x.s * BitsToInt(x.m) * Pow2(x.e)
    ELSE x.s * BitsToInt(SubSeq(x.m, 1, MantBits + x.e))

\* x < y for floats.
FLess(x, y) ==
    LET neg(z) == z.m # <<>> /\ z.s = -1
        pos(z) == z.m # <<>> /\ z.s = 1
        \* |x| < |y| for non-zero x, y
        magLess(a, b) ==
            \/ a.e < b.e
            \/ /\ a.e = b.e
               /\ \E i \in 1..MantBits :
                     /\ a.m[i] < b.m[i]
                     /\ \A k \in 1..(i - 1) : a.m[k] = b.m[k]
    IN  \/ neg(x) /\ ~neg(y)
        \/ x.m = <<>> /\ pos(y)
        \/ pos(x) /\ pos(y) /\ magLess(x, y)
        \/ neg(x) /\ neg(y) /\ magLess(y, x)


\* The integer nearest to bits * 2^e (ties to even): what "{:.0f}" prints.
FRoundMag(bits, e) ==
    LET L    == Len(bits)
        nint == L + e
    IN  IF bits = <<>> \/ nint < 0 THEN 0
        ELSE IF e >= 0 THEN BitsToInt(bits) * Pow2(e)
        ELSE LET I     == BitsToInt(SubSeq(bits, 1, nint))
                 guard == bits[nint + 1]
                 rest  == \E i \in (nint + 2)..L : bits[i] = 1
             IN  IF guard = 1 /\ (rest \/ I % 2 = 1) THEN I + 1 ELSE I

(***************************************************************************)
(* Python str, as a sequence of one-character strings.                     *)
(***************************************************************************)
UpperChars == <<"A", "B", "C", "D", "E", "F", "G", "H", "I", "J", "K", "L", "M",
                "N", "O", "P", "Q", "R", "S", "T", "U", "V", "W", "X", "Y", "Z">>

LowerChars == <<"a", "b", "c", "d", "e", "f", "g", "h", "i", "j", "k", "l", "m",
                "n", "o", "p", "q", "r", "s", "t", "u", "v", "w", "x", "y", "z">>

DigitChars == <<"0", "1", "2", "3", "4", "5", "6", "7", "8", "9">>

Whitespace == {" ", "\t", "\n"}

\* str.lower()
Lower(s) ==
    [i \in 1..Len(s) |->
        IF \E k \in 1..Len(UpperChars) : UpperChars[k] = s[i]
        THEN LowerChars[CHOOSE k \in 1..Len(UpperChars) : UpperChars[k] = s[i]]
        ELSE s[i]]

\* sub in s
Contains(s, sub) ==
    \E i \in 0..(Len(s) - Len(sub)) : SubSeq(s, i + 1, i + Len(sub)) = sub

\* str.isdigit() of one character
IsDigit(c) == \E k \in 1..Len(DigitChars) : DigitChars[k] = c

\* str.split(): the maximal runs of non-whitespace characters, in order.
RECURSIVE SplitFrom(_, _, _, _)
SplitFrom(s, i, cur, acc) ==
    IF i > Len(s) THEN (IF cur = <<>> THEN acc ELSE Append(acc, cur))
    ELSE IF s[i] \in Whitespace
         THEN SplitFrom(s, i + 1, <<>>, IF cur = <<>> THEN acc ELSE Append(acc, cur))
         ELSE SplitFrom(s, i + 1, Append(cur, s[i]), acc)

Split(s) == SplitFrom(s, 1, <<>>, <<>>)

\* str(n) of an int
RECURSIVE NatToStr(_)
NatToStr(n) ==
    IF n < 10 THEN <<DigitChars[n + 1]>>
    ELSE Append(NatToStr(n \div 10), DigitChars[(n % 10) + 1])

IntToStr(n) == IF n < 0 THEN <<"-">> \o NatToStr(-n) ELSE NatToStr(n)

\* c * k: empty when k <= 0
Repeat(c, k) == [i \in 1..k |-> c]

\* f"{x:.0f}" and f"{x:.1f}" of a float
FormatFixed0(x) ==
    (IF x.s = -1 THEN <<"-">> ELSE <<>>) \o NatToStr(FRoundMag(x.m, x.e))

FormatFixed1(x) ==
    LET n == IF x.m = <<>> THEN 0
             ELSE FRoundMag(MulStep(x.m, Len(x.m), 10, 0, <<>>), x.e)
    IN  (IF x.s = -1 THEN <<"-">> ELSE <<>>)
            \o NatToStr(n \div 10) \o <<".">> \o NatToStr(n % 10)

(***************************************************************************)
(* Optional values (a missing dict key, None) are sets of at most one      *)
(* element.                                                                *)
(***************************************************************************)
The(S) == CHOOSE x \in S : TRUE

EmptyCost == [context_percentage |-> {}, next_reset_time |-> {}, block_start_time |-> {}]

EmptyTokens == [used |-> {}, limit |-> {}]

\* {}: no key at all
EmptyContext == [model |-> {}, plan |-> {}, cost |-> {}, tokens |-> {}]

\* context.get("cost", {}) and context.get("tokens", {})
GetCost(context) == IF context.cost = {} THEN EmptyCost ELSE The(context.cost)

GetTokens(context) == IF context.tokens = {} THEN EmptyTokens ELSE The(context.tokens)

\* d.get(key, default) on the optional value v
GetOr(v, default) == IF v = {} THEN default ELSE The(v)

(***************************************************************************)
(* ModuleOutput and ModuleStatus (modules/base.py, as the modules use it). *)
(* The icons and the bar glyphs are named in ASCII.                        *)
(***************************************************************************)
ModuleOutput(text, icon, color, status, tooltip) ==
    [text |-> text, icon |-> icon, color |-> color, status |-> status,
     tooltip |-> tooltip]

DisabledOutput == ModuleOutput(<<>>, "", "", "DISABLED", {})

(***************************************************************************)
(* ModelModule                                                             *)
(***************************************************************************)
\* _extract_model_name without the lower(): a case-sensitive family match
ModelModule_extract_model_name_case_sensitive(context) ==
    LET model       == GetOr(context.model, <<>>)
        parts       == Split(model)
        digit_parts == {i \in 1..Len(parts) : IsDigit(parts[i][1])}
    IN  IF model = <<>> THEN <<>>
        ELSE IF Contains(model, <<"s", "o", "n", "n", "e", "t">>)
             THEN <<"S", "o", "n", "n", "e", "t">>
        ELSE IF Contains(model, <<"o", "p", "u", "s">>)
             THEN <<"O", "p", "u", "s">>
        ELSE IF Contains(model, <<"h", "a", "i", "k", "u">>)
             THEN <<"H", "a", "i", "k", "u">>
        ELSE IF Contains(model, <<"c", "l", "a", "u", "d", "e">>)
             THEN IF digit_parts # {}
                  THEN <<"C", "l", "a", "u", "d", "e", " ">>
                          \o parts[CHOOSE i \in digit_parts :
                                      \A k \in digit_parts : i <= k]
                  ELSE <<"C", "l", "a", "u", "d", "e">>
        ELSE model

\* ModelModule._extract_model_name
ModelModule_extract_model_name(context) ==
    LET model       == GetOr(context.model, <<>>)
        model_lower == Lower(model)
        parts       == Split(model)
        digit_parts == {i \in 1..Len(parts) : IsDigit(parts[i][1])}
    IN  IF model = <<>> THEN <<>>
        ELSE IF Contains(model_lower, <<"s", "o", "n", "n", "e", "t">>)
             THEN <<"S", "o", "n", "n", "e", "t">>
        ELSE IF Contains(model_lower, <<"o", "p", "u", "s">>)
             THEN <<"O", "p", "u", "s">>
        ELSE IF Contains(model_lower, <<"h", "a", "i", "k", "u">>)
             THEN <<"H", "a", "i", "k", "u">>
        ELSE IF Contains(model_lower, <<"c", "l", "a", "u", "d", "e">>)
             THEN IF digit_parts # {}
                  THEN <<"C", "l", "a", "u", "d", "e", " ">>
                          \o parts[CHOOSE i \in digit_parts :
                                      \A k \in digit_parts : i <= k]
                  ELSE <<"C", "l", "a", "u", "d", "e">>
        ELSE model

\* ModelModule.get_output, on the field _model
ModelModule_get_output(model) ==
    IF model = <<>> THEN DisabledOutput
    ELSE ModuleOutput(model, "robot", "purple", "SUCCESS",
                      {<<"current model: ">> \o model})

\* ModelModule.is_available
ModelModule_is_available(model) == model # <<>>

(***************************************************************************)
(* PlanModule                                                              *)
(***************************************************************************)
\* PlanModule.get_output, on the field _plan
PlanModule_get_output(plan) ==
    LET plan_lower == Lower(plan) IN
    IF plan = <<>> THEN DisabledOutput
    ELSE ModuleOutput(
            plan,
            IF Contains(plan_lower, <<"p", "r", "o">>) THEN "star"
            ELSE IF Contains(plan_lower, <<"f", "r", "e", "e">>) THEN "free"
            ELSE "clipboard",
            IF Contains(plan_lower, <<"p", "r", "o">>) THEN "gold"
            ELSE IF Contains(plan_lower, <<"f", "r", "e", "e">>) THEN "blue"
            ELSE "dim",
            "SUCCESS",
            {<<"plan: ">> \o plan})

\* PlanModule.is_available
PlanModule_is_available(plan) == plan # <<>>

(***************************************************************************)
(* ContextPercentModule                                                    *)
(***************************************************************************)
ContextPercentModule_warning_threshold == 70

ContextPercentModule_critical_threshold == 90

\* ContextPercentModule._calculate_percentage
ContextPercentModule_calculate_percentage(context) ==
    LET cost_data   == GetCost(context)
        tokens_data == GetTokens(context)
        used        == GetOr(tokens_data.used, 0)
        limit       == GetOr(tokens_data.limit, 0)
    IN  IF cost_data.context_percentage # {}
        THEN The(cost_data.context_percentage)
        ELSE IF limit > 0
             THEN FTrunc(FMulInt(FDivInt(FromInt(used), limit), 100))
             ELSE 0

\* ContextPercentModule.get_output, on the field _percentage
ContextPercentModule_get_output(percentage) ==
    IF percentage = 0 THEN DisabledOutput
    ELSE ModuleOutput(
            IntToStr(percentage) \o <<"%">>,
            "brain",
            IF percentage >= ContextPercentModule_critical_threshold THEN "red"
            ELSE IF percentage >= ContextPercentModule_warning_threshold THEN "yellow"
            ELSE "green",
            IF percentage >= ContextPercentModule_critical_threshold THEN "ERROR"
            ELSE IF percentage >= ContextPercentModule_warning_threshold THEN "WARNING"
            ELSE "SUCCESS",
            {<<"context usage: ">> \o IntToStr(percentage) \o <<"%">>})

\* ContextPercentModule.is_available
ContextPercentModule_is_available(percentage) == percentage > 0

(***************************************************************************)
(* ContextBarModule                                                        *)
(***************************************************************************)
ContextBarModule_bar_width == 10

ContextBarModule_warning_threshold == 70

ContextBarModule_critical_threshold == 90

\* ContextBarModule._calculate_percentage
ContextBarModule_calculate_percentage(context) ==
    LET cost_data   == GetCost(context)
        tokens_data == GetTokens(context)
        used        == GetOr(tokens_data.used, 0)
        limit       == GetOr(tokens_data.limit, 0)
    IN  IF cost_data.context_percentage # {}
        THEN The(cost_data.context_percentage)
        ELSE IF limit > 0
             THEN FTrunc(FMulInt(FDivInt(FromInt(used), limit), 100))
             ELSE 0

\* filled with round() in place of int()
ContextBarModule_filled_rounded(percentage) ==
    (percentage * ContextBarModule_bar_width + 50) \div 100

\* filled and empty of ContextBarModule._render_bar
ContextBarModule_filled(percentage) ==
    FTrunc(FMulInt(FDivInt(FromInt(percentage), 100), ContextBarModule_bar_width))

ContextBarModule_empty(percentage) ==
    ContextBarModule_bar_width - ContextBarModule_filled(percentage)

\* ContextBarModule._render_bar
ContextBarModule_render_bar(percentage) ==
    <<"[">> \o Repeat("#", ContextBarModule_filled(percentage))
            \o Repeat(".", ContextBarModule_empty(percentage))
            \o <<"]", " ">> \o IntToStr(percentage) \o <<"%">>

\* get_output with > in place of >= at the two thresholds
ContextBarModule_get_output_strict(percentage) ==
    IF percentage = 0 THEN DisabledOutput
    ELSE ModuleOutput(
            ContextBarModule_render_bar(percentage),
            "brain",
            IF percentage > ContextBarModule_critical_threshold THEN "red"
            ELSE IF percentage > ContextBarModule_warning_threshold THEN "yellow"
            ELSE "green",
            IF percentage > ContextBarModule_critical_threshold THEN "ERROR"
            ELSE IF percentage > ContextBarModule_warning_threshold THEN "WARNING"
            ELSE "SUCCESS",
            {<<"context usage: ">> \o IntToStr(percentage) \o <<"%">>})

\* ContextBarModule.get_output, on the field _percentage
ContextBarModule_get_output(percentage) ==
    IF percentage = 0 THEN DisabledOutput
    ELSE ModuleOutput(
            ContextBarModule_render_bar(percentage),
            "brain",
            IF percentage >= ContextBarModule_critical_threshold THEN "red"
            ELSE IF percentage >= ContextBarModule_warning_threshold THEN "yellow"
            ELSE "green",
            IF percentage >= ContextBarModule_critical_threshold THEN "ERROR"
            ELSE IF percentage >= ContextBarModule_warning_threshold THEN "WARNING"
            ELSE "SUCCESS",
            {<<"context usage: ">> \o IntToStr(percentage) \o <<"%">>})

\* ContextBarModule.is_available
ContextBarModule_is_available(percentage) == percentage > 0

(***************************************************************************)
(* Time.  A datetime is its Unix timestamp in whole seconds, a timedelta   *)
(* a whole number of seconds.  datetime.fromtimestamp raises ValueError    *)
(* above MaxTimestamp (the year-9999 limit, scaled down).                  *)
(***************************************************************************)
MaxTimestamp == 200000

SecondsPerDay == 86400

SecondsPerHour == 3600

SecondsPerMinute == 60

FromTimestampOK(t) == t <= MaxTimestamp

(***************************************************************************)
(* ResetTimerModule                                                        *)
(***************************************************************************)
\* ResetTimerModule._extract_reset_time, with datetime.now() = clock
ResetTimerModule_extract_reset_time(context, clock) ==
    LET cost_data       == GetCost(context)
        reset_timestamp == cost_data.next_reset_time
        next_midnight   == ((clock \div SecondsPerDay) + 1) * SecondsPerDay
    IN  IF reset_timestamp # {} /\ The(reset_timestamp) # 0
           /\ FromTimestampOK(The(reset_timestamp))
        THEN {The(reset_timestamp)}
        ELSE {next_midnight}

\* _calculate_remaining without the max(0, ...)
ResetTimerModule_calculate_remaining_unclamped(reset_time, clock) ==
    IF reset_time = {} THEN {}
    ELSE {The(reset_time) - clock}

\* ResetTimerModule._calculate_remaining, with datetime.now() = clock
ResetTimerModule_calculate_remaining(reset_time, clock) ==
    IF reset_time = {} THEN {}
    ELSE IF The(reset_time) - clock < 0 THEN {0}
    ELSE {The(reset_time) - clock}

\* ResetTimerModule._format_duration
ResetTimerModule_format_duration(total_seconds) ==
    LET hours     == total_seconds \div SecondsPerHour
        remainder == total_seconds % SecondsPerHour
        minutes   == remainder \div SecondsPerMinute
        seconds   == remainder % SecondsPerMinute
    IN  IF hours > 0
        THEN IntToStr(hours) \o <<"h", " ">> \o IntToStr(minutes) \o <<"m">>
        ELSE IF minutes > 0
        THEN IntToStr(minutes) \o <<"m", " ">> \o IntToStr(seconds) \o <<"s">>
        ELSE IntToStr(seconds) \o <<"s">>

ResetTimerModule_red_below == 300

ResetTimerModule_yellow_below == 1800

\* ResetTimerModule.get_output, on the field _reset_time
ResetTimerModule_get_output(reset_time, clock) ==
    LET remaining == ResetTimerModule_calculate_remaining(reset_time, clock)
        formatted == ResetTimerModule_format_duration(The(remaining))
        total_seconds == The(remaining)
    IN  IF remaining = {} THEN DisabledOutput
        ELSE ModuleOutput(
                formatted,
                "cycle",
                IF total_seconds < ResetTimerModule_red_below THEN "red"
                ELSE IF total_seconds < ResetTimerModule_yellow_below THEN "yellow"
                ELSE "green",
                IF total_seconds < ResetTimerModule_red_below THEN "WARNING"
                ELSE "SUCCESS",
                {<<"next reset: ">> \o formatted})

\* ResetTimerModule.is_available
ResetTimerModule_is_available(reset_time) == reset_time # {}

(***************************************************************************)
(* BlockUsageModule                                                        *)
(***************************************************************************)
BlockUsageModule_block_duration_hours == 5

BlockUsageModule_bar_width == 8

BlockUsageModule_red_from == 90

BlockUsageModule_yellow_from == 70

\* The new _block_start of BlockUsageModule.set_context
BlockUsageModule_new_block_start(block_start_old, context) ==
    LET cost_data   == GetCost(context)
        block_start == cost_data.block_start_time
    IN  IF block_start # {} /\ The(block_start) # 0
        THEN (IF FromTimestampOK(The(block_start)) THEN {The(block_start)} ELSE {})
        ELSE block_start_old

\* _calculate_usage without the min(percentage, 100.0)
BlockUsageModule_calculate_usage_unclamped(block_start, clock) ==
    LET elapsed        == clock - The(block_start)
        total_duration == BlockUsageModule_block_duration_hours * SecondsPerHour
        percentage     == FMulInt(FDivInt(FromInt(elapsed), total_duration), 100)
    IN  IF block_start = {} THEN FZero
        ELSE IF elapsed < 0 THEN FZero
        ELSE percentage

\* BlockUsageModule._calculate_usage, with datetime.now() = clock: a float
BlockUsageModule_calculate_usage(block_start, clock) ==
    LET elapsed        == clock - The(block_start)
        total_duration == BlockUsageModule_block_duration_hours * SecondsPerHour
        percentage     == FMulInt(FDivInt(FromInt(elapsed), total_duration), 100)
    IN  IF block_start = {} THEN FZero
        ELSE IF elapsed < 0 THEN FZero
        ELSE IF FLess(FromInt(100), percentage) THEN FromInt(100)
        ELSE percentage

\* filled and empty of BlockUsageModule._render_bar (percentage: a float)
BlockUsageModule_filled(percentage) ==
    FTrunc(FMulInt(FDivInt(percentage, 100), BlockUsageModule_bar_width))

BlockUsageModule_empty(percentage) ==
    BlockUsageModule_bar_width - BlockUsageModule_filled(percentage)

\* BlockUsageModule._render_bar
BlockUsageModule_render_bar(percentage) ==
    <<"[">> \o Repeat("#", BlockUsageModule_filled(percentage))
            \o Repeat(".", BlockUsageModule_empty(percentage))
            \o <<"]", " ">> \o FormatFixed0(percentage) \o <<"%">>

\* BlockUsageModule.get_output, on the field _block_start
BlockUsageModule_get_output(block_start, clock) ==
    LET usage == BlockUsageModule_calculate_usage(block_start, clock)
        formatted == BlockUsageModule_render_bar(usage)
    IN  IF ~FLess(FZero, usage) /\ block_start = {} THEN DisabledOutput
        ELSE ModuleOutput(
                formatted,
                "hourglass",
                IF ~FLess(usage, FromInt(BlockUsageModule_red_from)) THEN "red"
                ELSE IF ~FLess(usage, FromInt(BlockUsageModule_yellow_from)) THEN "yellow"
                ELSE "green",
                IF ~FLess(usage, FromInt(BlockUsageModule_red_from)) THEN "WARNING"
                ELSE "SUCCESS",
                {<<"block usage: ">> \o FormatFixed1(usage) \o <<"%">>})

\* BlockUsageModule.is_available
BlockUsageModule_is_available(block_start) == block_start # {}

(***************************************************************************)
(* The snapshots and clock values the model draws from.                    *)
(***************************************************************************)
MaxChunks == 3

MaxNegative == 3

MaxPercent == 105

MaxUsed == 30

MaxLimit == 25

MaxSeconds == 3700

MaxElapsed == 400

Classes == {"ModelModule", "PlanModule", "ContextPercentModule",
            "ContextBarModule", "ResetTimerModule", "BlockUsageModule"}

\* Raw model strings: up to MaxChunks of these pieces, concatenated.
ModelChunks ==
    { <<"c", "l", "a", "u", "d", "e">>,
      <<"C", "l", "a", "u", "d", "e", "-", "3", "-", "5", "-">>,
      <<"s", "o", "n", "n", "e", "t">>,
      <<"O", "P", "U", "S">>,
      <<"H", "a", "i", "k", "u">>,
      <<" ">>,
      <<"3", ".", "5">>,
      <<"g", "p", "t">>,
      <<"-", "2", "0", "2", "4">> }

RECURSIVE ChunkStrings(_)
ChunkStrings(k) ==
    IF k = 0 THEN {<<>>}
    ELSE LET prev == ChunkStrings(k - 1)
         IN  prev \cup {p \o c : p \in prev, c \in ModelChunks}

ModelStrings == ChunkStrings(MaxChunks)

PlanStrings ==
    { <<>>, <<"P", "r", "o">>, <<"f", "r", "e", "e">>, <<"M", "a", "x">>,
      <<"p", "r", "o", " ", "f", "r", "e", "e">> }

NowValues == {20000, 20045, 21800, 29000, 38000}

StartTime == CHOOSE t \in NowValues : \A u \in NowValues : t <= u

ResetStamps == {0, 10000, 20000, 20030, 20330, 23000, 29000, MaxTimestamp + 1}

BlockStamps == {0, 2000, 20000, 25000, MaxTimestamp + 1}

\* A snapshot whose every key is present.
FullContext ==
    [model  |-> {<<"c", "l", "a", "u", "d", "e", " ", "3">>},
     plan   |-> {<<"P", "r", "o">>},
     cost   |-> {[context_percentage |-> {42}, next_reset_time |-> {23000},
                  block_start_time |-> {20000}]},
     tokens |-> {[used |-> {1}, limit |-> {4}]}]

WithModel(m) == [EmptyContext EXCEPT !.model = m]

WithPlan(q) == [EmptyContext EXCEPT !.plan = q]

WithPercentage(v) ==
    [EmptyContext EXCEPT !.cost = {[EmptyCost EXCEPT !.context_percentage = {v}]}]

WithTokens(u, l) == [EmptyContext EXCEPT !.tokens = {[used |-> u, limit |-> l]}]

WithResetTime(t) ==
    [EmptyContext EXCEPT !.cost = {[EmptyCost EXCEPT !.next_reset_time = {t}]}]

WithBlockStart(t) ==
    [EmptyContext EXCEPT !.cost = {[EmptyCost EXCEPT !.block_start_time = {t}]}]

WithEmptyCost == [EmptyContext EXCEPT !.cost = {EmptyCost}]

Opt(S) == {{}} \cup {{x} : x \in S}

\* The snapshots of the sequences of calls (Spec): few, every case of the code.
ModelContexts ==
    {WithModel(m) : m \in Opt(ChunkStrings(1))}
        \cup {FullContext, [FullContext EXCEPT !.model = {}]}

PlanContexts ==
    {WithPlan(q) : q \in Opt(PlanStrings)}
        \cup {FullContext, [FullContext EXCEPT !.plan = {}]}

PercentContexts ==
    {WithPercentage(v) : v \in {-MaxNegative, -1, 0, 1, 69, 70, 89, 90, 100, MaxPercent}}
        \cup {WithTokens(u, l) : u \in Opt({-1, 0, 1, 23, 29}),
                                 l \in Opt({-1, 0, 3, 20, MaxLimit})}
        \cup {EmptyContext, WithEmptyCost, FullContext,
              [FullContext EXCEPT !.cost = {EmptyCost}],
              [FullContext EXCEPT !.cost = {}, !.tokens = {}]}

ResetContexts ==
    {WithResetTime(t) : t \in ResetStamps}
        \cup {EmptyContext, WithEmptyCost, FullContext}

BlockContexts ==
    {WithBlockStart(t) : t \in BlockStamps}
        \cup {EmptyContext, WithEmptyCost, FullContext}

\* The snapshots of the one-call specifications: whole ranges.
AllModelContexts == {WithModel(m) : m \in Opt(ModelStrings)}

IntInputs == (-MaxNegative)..MaxPercent

AllPercentContexts ==
    {WithPercentage(v) : v \in IntInputs}
        \cup {WithTokens(u, l) : u \in Opt((-MaxNegative)..MaxUsed),
                                 l \in Opt((-1)..MaxLimit)}
        \cup {EmptyContext, WithEmptyCost, FullContext}

\* Block starts from MaxNegative seconds after StartTime back to MaxElapsed
\* seconds before it, and further back in steps of 225 s to beyond the window
AllBlockContexts ==
    {WithBlockStart(StartTime - d) :
        d \in ((-MaxNegative)..MaxElapsed)
                \cup {225 * k : k \in 0..80}
                \cup {17999, 18000, 18001, 19999}}

AllResetContexts ==
    {WithResetTime(t) :
        t \in ((StartTime - MaxNegative)..(StartTime + MaxSeconds))
                \cup {StartTime + 7200, StartTime + 9000, StartTime + 86399,
                      MaxTimestamp + 1}}
        \cup {EmptyContext}

(***************************************************************************)
(* State: the class of the constructed module and its fields; the clock    *)
(* read by datetime.now(); the last call with what it returned; the        *)
(* snapshot last produced by the context source and the argument of a      *)
(* direct call of a helper.                                                *)
(***************************************************************************)
VARIABLES cls, _context, _model, _plan, _percentage, _reset_time, _block_start,
          now, ret, snapshot, arg, registry, _servers, pipeline

vars == <<cls, _context, _model, _plan, _percentage, _reset_time, _block_start,
          now, ret, snapshot, arg, registry, _servers, pipeline>>

\* What a call on a module instance leaves alone: the registry, the MCP
\* module's servers and the aggregator's render pass.
others == <<registry, _servers, pipeline>>

\* ModuleRegistry with nothing registered: the names registered and the
\* names enabled, in the order they were enabled.
EmptyRegistry == [modules |-> {}, enabled |-> <<>>]

\* No render pass is running.
NoPass == [pc |-> "idle"]

fields == <<_context, _model, _plan, _percentage, _reset_time, _block_start>>

NoOutput == ModuleOutput(<<>>, "", "", "NONE", {})

\* The record of a call: op, and the str, ModuleOutput or bool it returned.
Returned(op, text, out, avail) ==
    [op |-> op, text |-> text, out |-> out, avail |-> avail]

Void(op) == Returned(op, <<>>, NoOutput, FALSE)

\* __init__ of the six classes
Construct ==
    /\ cls \in Classes
    /\ _context = EmptyContext
    /\ _model = <<>>
    /\ _plan = <<>>
    /\ _percentage = 0
    /\ _reset_time = {}
    /\ _block_start = {}
    /\ now = StartTime
    /\ ret = Void("__init__")
    /\ registry = EmptyRegistry
    /\ _servers = <<>>
    /\ pipeline = NoPass

Init == Construct /\ snapshot = EmptyContext /\ arg = 0

\* Time passes between two calls.
Tick ==
    /\ \E t \in NowValues : t > now /\ now' = t
    /\ ret' = Void("tick")
    /\ UNCHANGED <<others, cls, fields, snapshot, arg>>

(***************************************************************************)
(* The calls on a ModelModule                                              *)
(***************************************************************************)
Call_ModelModule_set_context(context) ==
    /\ cls = "ModelModule"
    /\ snapshot' = context
    /\ _context' = context
    /\ _model' = ModelModule_extract_model_name(context)
    /\ ret' = Void("set_context")
    /\ UNCHANGED <<others, cls, _plan, _percentage, _reset_time, _block_start, now, arg>>

Call_ModelModule_refresh ==
    /\ cls = "ModelModule"
    /\ ret' = Void("refresh")
    /\ UNCHANGED <<others, cls, fields, now, snapshot, arg>>

Call_ModelModule_get_output ==
    /\ cls = "ModelModule"
    /\ ret' = Returned("get_output", <<>>, ModelModule_get_output(_model), FALSE)
    /\ UNCHANGED <<others, cls, fields, now, snapshot, arg>>

Call_ModelModule_is_available ==
    /\ cls = "ModelModule"
    /\ ret' = Returned("is_available", <<>>, NoOutput, ModelModule_is_available(_model))
    /\ UNCHANGED <<others, cls, fields, now, snapshot, arg>>

(***************************************************************************)
(* The calls on a PlanModule                                               *)
(***************************************************************************)
Call_PlanModule_set_context(context) ==
    /\ cls = "PlanModule"
    /\ snapshot' = context
    /\ _context' = context
    /\ _plan' = GetOr(context.plan, <<>>)
    /\ ret' = Void("set_context")
    /\ UNCHANGED <<others, cls, _model, _percentage, _reset_time, _block_start, now, arg>>

Call_PlanModule_refresh ==
    /\ cls = "PlanModule"
    /\ ret' = Void("refresh")
    /\ UNCHANGED <<others, cls, fields, now, snapshot, arg>>

Call_PlanModule_get_output ==
    /\ cls = "PlanModule"
    /\ ret' = Returned("get_output", <<>>, PlanModule_get_output(_plan), FALSE)
    /\ UNCHANGED <<others, cls, fields, now, snapshot, arg>>

Call_PlanModule_is_available ==
    /\ cls = "PlanModule"
    /\ ret' = Returned("is_available", <<>>, NoOutput, PlanModule_is_available(_plan))
    /\ UNCHANGED <<others, cls, fields, now, snapshot, arg>>

(***************************************************************************)
(* The calls on a ContextPercentModule                                     *)
(***************************************************************************)
Call_ContextPercentModule_set_context(context) ==
    /\ cls = "ContextPercentModule"
    /\ snapshot' = context
    /\ _context' = context
    /\ _percentage' = ContextPercentModule_calculate_percentage(context)
    /\ ret' = Void("set_context")
    /\ UNCHANGED <<others, cls, _model, _plan, _reset_time, _block_start, now, arg>>

Call_ContextPercentModule_refresh ==
    /\ cls = "ContextPercentModule"
    /\ _percentage' = ContextPercentModule_calculate_percentage(_context)
    /\ ret' = Void("refresh")
    /\ UNCHANGED <<others, cls, _context, _model, _plan, _reset_time, _block_start, now,
                   snapshot, arg>>

Call_ContextPercentModule_get_output ==
    /\ cls = "ContextPercentModule"
    /\ ret' = Returned("get_output", <<>>,
                       ContextPercentModule_get_output(_percentage), FALSE)
    /\ UNCHANGED <<others, cls, fields, now, snapshot, arg>>

Call_ContextPercentModule_is_available ==
    /\ cls = "ContextPercentModule"
    /\ ret' = Returned("is_available", <<>>, NoOutput,
                       ContextPercentModule_is_available(_percentage))
    /\ UNCHANGED <<others, cls, fields, now, snapshot, arg>>

(***************************************************************************)
(* The calls on a ContextBarModule                                         *)
(***************************************************************************)
Call_ContextBarModule_set_context(context) ==
    /\ cls = "ContextBarModule"
    /\ snapshot' = context
    /\ _context' = context
    /\ _percentage' = ContextBarModule_calculate_percentage(context)
    /\ ret' = Void("set_context")
    /\ UNCHANGED <<others, cls, _model, _plan, _reset_time, _block_start, now, arg>>

Call_ContextBarModule_refresh ==
    /\ cls = "ContextBarModule"
    /\ _percentage' = ContextBarModule_calculate_percentage(_context)
    /\ ret' = Void("refresh")
    /\ UNCHANGED <<others, cls, _context, _model, _plan, _reset_time, _block_start, now,
                   snapshot, arg>>

Call_ContextBarModule_get_output ==
    /\ cls = "ContextBarModule"
    /\ ret' = Returned("get_output", <<>>,
                       ContextBarModule_get_output(_percentage), FALSE)
    /\ UNCHANGED <<others, cls, fields, now, snapshot, arg>>

Call_ContextBarModule_is_available ==
    /\ cls = "ContextBarModule"
    /\ ret' = Returned("is_available", <<>>, NoOutput,
                       ContextBarModule_is_available(_percentage))
    /\ UNCHANGED <<others, cls, fields, now, snapshot, arg>>

\* module._render_bar(percentage), called directly
Call_ContextBarModule_render_bar(percentage) ==
    /\ cls = "ContextBarModule"
    /\ ret' = Returned("_render_bar", ContextBarModule_render_bar(percentage),
                       NoOutput, FALSE)
    /\ UNCHANGED <<others, cls, fields, now, snapshot, arg>>

(***************************************************************************)
(* The calls on a ResetTimerModule                                         *)
(***************************************************************************)
Call_ResetTimerModule_set_context(context) ==
    /\ cls = "ResetTimerModule"
    /\ snapshot' = context
    /\ _context' = context
    /\ _reset_time' = ResetTimerModule_extract_reset_time(context, now)
    /\ ret' = Void("set_context")
    /\ UNCHANGED <<others, cls, _model, _plan, _percentage, _block_start, now, arg>>

Call_ResetTimerModule_refresh ==
    /\ cls = "ResetTimerModule"
    /\ ret' = Void("refresh")
    /\ UNCHANGED <<others, cls, fields, now, snapshot, arg>>

\* get_output that forgets a reset time once it has passed
Call_ResetTimerModule_get_output_forgetting ==
    /\ cls = "ResetTimerModule"
    /\ ret' = Returned("get_output", <<>>,
                       ResetTimerModule_get_output(_reset_time, now), FALSE)
    /\ _reset_time' = IF ResetTimerModule_calculate_remaining(_reset_time, now) = {0}
                      THEN {} ELSE _reset_time
    /\ UNCHANGED <<others, cls, _context, _model, _plan, _percentage, _block_start,
                   now, snapshot, arg>>

Call_ResetTimerModule_get_output ==
    /\ cls = "ResetTimerModule"
    /\ ret' = Returned("get_output", <<>>,
                       ResetTimerModule_get_output(_reset_time, now), FALSE)
    /\ UNCHANGED <<others, cls, fields, now, snapshot, arg>>

Call_ResetTimerModule_is_available ==
    /\ cls = "ResetTimerModule"
    /\ ret' = Returned("is_available", <<>>, NoOutput,
                       ResetTimerModule_is_available(_reset_time))
    /\ UNCHANGED <<others, cls, fields, now, snapshot, arg>>

(***************************************************************************)
(* The calls on a BlockUsageModule                                         *)
(***************************************************************************)
Call_BlockUsageModule_set_context(context) ==
    /\ cls = "BlockUsageModule"
    /\ snapshot' = context
    /\ _context' = context
    /\ _block_start' = BlockUsageModule_new_block_start(_block_start, context)
    /\ ret' = Void("set_context")
    /\ UNCHANGED <<others, cls, _model, _plan, _percentage, _reset_time, now, arg>>

Call_BlockUsageModule_refresh ==
    /\ cls = "BlockUsageModule"
    /\ ret' = Void("refresh")
    /\ UNCHANGED <<others, cls, fields, now, snapshot, arg>>

Call_BlockUsageModule_get_output ==
    /\ cls = "BlockUsageModule"
    /\ ret' = Returned("get_output", <<>>,
                       BlockUsageModule_get_output(_block_start, now), FALSE)
    /\ UNCHANGED <<others, cls, fields, now, snapshot, arg>>

Call_BlockUsageModule_is_available ==
    /\ cls = "BlockUsageModule"
    /\ ret' = Returned("is_available", <<>>, NoOutput,
                       BlockUsageModule_is_available(_block_start))
    /\ UNCHANGED <<others, cls, fields, now, snapshot, arg>>

\* module._render_bar(percentage), called directly with an int percentage
Call_BlockUsageModule_render_bar(percentage) ==
    /\ cls = "BlockUsageModule"
    /\ ret' = Returned("_render_bar", BlockUsageModule_render_bar(FromInt(percentage)),
                       NoOutput, FALSE)
    /\ UNCHANGED <<others, cls, fields, now, snapshot, arg>>

(***************************************************************************)
(* Specifications                                                          *)
(***************************************************************************)
\* The Module Contract: any sequence of calls on one instance of any of the
\* six classes.
Next ==
    \/ \E c \in ModelContexts : Call_ModelModule_set_context(c)
    \/ Call_ModelModule_refresh
    \/ Call_ModelModule_get_output
    \/ Call_ModelModule_is_available
    \/ \E c \in PlanContexts : Call_PlanModule_set_context(c)
    \/ Call_PlanModule_refresh
    \/ Call_PlanModule_get_output
    \/ Call_PlanModule_is_available
    \/ \E c \in PercentContexts : Call_ContextPercentModule_set_context(c)
    \/ Call_ContextPercentModule_refresh
    \/ Call_ContextPercentModule_get_output
    \/ Call_ContextPercentModule_is_available
    \/ \E c \in PercentContexts : Call_ContextBarModule_set_context(c)
    \/ Call_ContextBarModule_refresh
    \/ Call_ContextBarModule_get_output
    \/ Call_ContextBarModule_is_available
    \/ \E c \in ResetContexts : Call_ResetTimerModule_set_context(c)
    \/ Call_ResetTimerModule_refresh
    \/ Call_ResetTimerModule_get_output
    \/ Call_ResetTimerModule_is_available
    \/ \E c \in BlockContexts : Call_BlockUsageModule_set_context(c)
    \/ Call_BlockUsageModule_refresh
    \/ Call_BlockUsageModule_get_output
    \/ Call_BlockUsageModule_is_available
    \/ Tick

Spec == Init /\ [][Next]_vars

\* ModelModule on one snapshot out of AllModelContexts.
InitModelName ==
    Construct /\ cls = "ModelModule" /\ snapshot \in AllModelContexts /\ arg = 0

NextModelName ==
    \/ Call_ModelModule_set_context(snapshot)
    \/ Call_ModelModule_get_output
    \/ Call_ModelModule_is_available

SpecModelName == InitModelName /\ [][NextModelName]_vars

\* ContextPercentModule or ContextBarModule on one snapshot out of
\* AllPercentContexts.
InitPercent ==
    /\ Construct
    /\ cls \in {"ContextPercentModule", "ContextBarModule"}
    /\ snapshot \in AllPercentContexts
    /\ arg = 0

NextPercent ==
    \/ Call_ContextPercentModule_set_context(snapshot)
    \/ Call_ContextPercentModule_refresh
    \/ Call_ContextPercentModule_get_output
    \/ Call_ContextPercentModule_is_available
    \/ Call_ContextBarModule_set_context(snapshot)
    \/ Call_ContextBarModule_refresh
    \/ Call_ContextBarModule_get_output
    \/ Call_ContextBarModule_is_available

SpecPercent == InitPercent /\ [][NextPercent]_vars

\* _render_bar(arg) on a fresh ContextBarModule or BlockUsageModule.
InitRenderBar ==
    /\ Construct
    /\ cls \in {"ContextBarModule", "BlockUsageModule"}
    /\ snapshot = EmptyContext
    /\ arg \in IntInputs

NextRenderBar ==
    \/ Call_ContextBarModule_render_bar(arg)
    \/ Call_BlockUsageModule_render_bar(arg)

SpecRenderBar == InitRenderBar /\ [][NextRenderBar]_vars

\* BlockUsageModule on one snapshot out of AllBlockContexts, as time passes.
InitBlock ==
    Construct /\ cls = "BlockUsageModule" /\ snapshot \in AllBlockContexts /\ arg = 0

NextBlock ==
    \/ Call_BlockUsageModule_set_context(snapshot)
    \/ Call_BlockUsageModule_get_output
    \/ Call_BlockUsageModule_is_available
    \/ Tick

SpecBlock == InitBlock /\ [][NextBlock]_vars

\* ResetTimerModule on one snapshot out of AllResetContexts, as time passes.
InitTimer ==
    Construct /\ cls = "ResetTimerModule" /\ snapshot \in AllResetContexts /\ arg = 0

NextTimer ==
    \/ Call_ResetTimerModule_set_context(snapshot)
    \/ Call_ResetTimerModule_get_output
    \/ Call_ResetTimerModule_is_available
    \/ Tick

SpecTimer == InitTimer /\ [][NextTimer]_vars

(***************************************************************************)
(* The module registry (section 4.3) and the automatic registration        *)
(***************************************************************************)
ModelModuleNames == <<"model", "plan", "context_pct", "context_bar">>

TimeModuleNames == <<"reset_timer", "block_usage">>

\* The names the registry is called with: those of the built-in modules.
RegistryNames ==
    {ModelModuleNames[i] : i \in 1..Len(ModelModuleNames)}
        \cup {TimeModuleNames[i] : i \in 1..Len(TimeModuleNames)}

InSeq(x, q) == \E i \in 1..Len(q) : q[i] = x

\* ModuleRegistry.has_module(name)
ModuleRegistry_has_module(reg, name) == name \in reg.modules

\* ModuleRegistry.register(name, module_class): a name already present stays
\* as it is.
ModuleRegistry_register(reg, name) ==
    IF name \in reg.modules THEN reg
    ELSE [reg EXCEPT !.modules = @ \cup {name}]

\* ModuleRegistry.enable(name): idempotent; an enabled name keeps its place.
ModuleRegistry_enable(reg, name) ==
    IF name \notin reg.modules \/ InSeq(name, reg.enabled) THEN reg
    ELSE [reg EXCEPT !.enabled = Append(@, name)]

\* ModuleRegistry.disable(name): idempotent.
ModuleRegistry_disable(reg, name) ==
    [reg EXCEPT !.enabled = SelectSeq(@, LAMBDA n : n # name)]

\* ModuleRegistry.get_enabled()
ModuleRegistry_get_enabled(reg) == reg.enabled

\* The loop of _register_modules without the has_module test
RECURSIVE register_modules_unguarded(_, _, _)
register_modules_unguarded(modules, i, reg) ==
    IF i > Len(modules) THEN reg
    ELSE register_modules_unguarded(modules, i + 1,
            ModuleRegistry_enable(ModuleRegistry_register(reg, modules[i]),
                                  modules[i]))

\* The loop of _register_modules over modules[i..], from the registry reg
RECURSIVE register_modules(_, _, _)
register_modules(modules, i, reg) ==
    IF i > Len(modules) THEN reg
    ELSE register_modules(modules, i + 1,
            IF ~ModuleRegistry_has_module(reg, modules[i])
            THEN ModuleRegistry_enable(ModuleRegistry_register(reg, modules[i]),
                                       modules[i])
            ELSE reg)

\* A call on the registry: its name, its argument and what it returned
RegistryCall(op, name, result) == Returned(op, <<name>>, NoOutput, result)

RegistryFrame ==
    UNCHANGED <<cls, fields, now, snapshot, arg, _servers, pipeline>>

Call_ModuleRegistry_register(name) ==
    /\ cls = "ModuleRegistry"
    /\ registry' = ModuleRegistry_register(registry, name)
    /\ ret' = RegistryCall("register", name, FALSE)
    /\ RegistryFrame

Call_ModuleRegistry_has_module(name) ==
    /\ cls = "ModuleRegistry"
    /\ registry' = registry
    /\ ret' = RegistryCall("has_module", name,
                           ModuleRegistry_has_module(registry, name))
    /\ RegistryFrame

Call_ModuleRegistry_enable(name) ==
    /\ cls = "ModuleRegistry"
    /\ registry' = ModuleRegistry_enable(registry, name)
    /\ ret' = RegistryCall("enable", name, FALSE)
    /\ RegistryFrame

Call_ModuleRegistry_disable(name) ==
    /\ cls = "ModuleRegistry"
    /\ registry' = ModuleRegistry_disable(registry, name)
    /\ ret' = RegistryCall("disable", name, FALSE)
    /\ RegistryFrame

\* model.py: _register_modules()
Call_model_register_modules ==
    /\ cls = "ModuleRegistry"
    /\ registry' = register_modules(ModelModuleNames, 1, registry)
    /\ ret' = RegistryCall("_register_modules", "model", FALSE)
    /\ RegistryFrame

\* time_modules.py: _register_modules()
Call_time_register_modules ==
    /\ cls = "ModuleRegistry"
    /\ registry' = register_modules(TimeModuleNames, 1, registry)
    /\ ret' = RegistryCall("_register_modules", "time_modules", FALSE)
    /\ RegistryFrame

\* The registry at process start, before any registration.
InitRegistry ==
    /\ cls = "ModuleRegistry"
    /\ _context = EmptyContext
    /\ _model = <<>>
    /\ _plan = <<>>
    /\ _percentage = 0
    /\ _reset_time = {}
    /\ _block_start = {}
    /\ now = StartTime
    /\ ret = Void("__init__")
    /\ snapshot = EmptyContext
    /\ arg = 0
    /\ registry = EmptyRegistry
    /\ _servers = <<>>
    /\ pipeline = NoPass

NextRegistry ==
    \/ \E name \in RegistryNames : Call_ModuleRegistry_register(name)
    \/ \E name \in RegistryNames : Call_ModuleRegistry_has_module(name)
    \/ \E name \in RegistryNames : Call_ModuleRegistry_enable(name)
    \/ \E name \in RegistryNames : Call_ModuleRegistry_disable(name)
    \/ Call_model_register_modules
    \/ Call_time_register_modules

SpecRegistry == InitRegistry /\ [][NextRegistry]_vars

(***************************************************************************)
(* Module instances as values: the fields of one instance, and the four    *)
(* contract methods of its class on them.                                  *)
(***************************************************************************)
\* The class registered under a name
ClassOf(name) ==
    CASE name = "model" -> "ModelModule"
      [] name = "plan" -> "PlanModule"
      [] name = "context_pct" -> "ContextPercentModule"
      [] name = "context_bar" -> "ContextBarModule"
      [] name = "reset_timer" -> "ResetTimerModule"
      [] name = "block_usage" -> "BlockUsageModule"

\* __init__
NewInstance ==
    [_context |-> EmptyContext, _model |-> <<>>, _plan |-> <<>>,
     _percentage |-> 0, _reset_time |-> {}, _block_start |-> {}]

\* set_context(context) of class c at the clock value clock
Instance_set_context(c, inst, context, clock) ==
    CASE c = "ModelModule" ->
            [inst EXCEPT !._context = context,
                         !._model = ModelModule_extract_model_name(context)]
      [] c = "PlanModule" ->
            [inst EXCEPT !._context = context,
                         !._plan = GetOr(context.plan, <<>>)]
      [] c = "ContextPercentModule" ->
            [inst EXCEPT !._context = context,
                         !._percentage =
                             ContextPercentModule_calculate_percentage(context)]
      [] c = "ContextBarModule" ->
            [inst EXCEPT !._context = context,
                         !._percentage =
                             ContextBarModule_calculate_percentage(context)]
      [] c = "ResetTimerModule" ->
            [inst EXCEPT !._context = context,
                         !._reset_time =
                             ResetTimerModule_extract_reset_time(context, clock)]
      [] c = "BlockUsageModule" ->
            [inst EXCEPT !._context = context,
                         !._block_start =
                             BlockUsageModule_new_block_start(@, context)]

\* refresh()
Instance_refresh(c, inst) ==
    CASE c = "ContextPercentModule" ->
            [inst EXCEPT !._percentage =
                             ContextPercentModule_calculate_percentage(inst._context)]
      [] c = "ContextBarModule" ->
            [inst EXCEPT !._percentage =
                             ContextBarModule_calculate_percentage(inst._context)]
      [] OTHER -> inst

\* is_available()
Instance_is_available(c, inst) ==
    CASE c = "ModelModule" -> ModelModule_is_available(inst._model)
      [] c = "PlanModule" -> PlanModule_is_available(inst._plan)
      [] c = "ContextPercentModule" ->
            ContextPercentModule_is_available(inst._percentage)
      [] c = "ContextBarModule" -> ContextBarModule_is_available(inst._percentage)
      [] c = "ResetTimerModule" -> ResetTimerModule_is_available(inst._reset_time)
      [] c = "BlockUsageModule" -> BlockUsageModule_is_available(inst._block_start)

\* get_output() at the clock value clock
Instance_get_output(c, inst, clock) ==
    CASE c = "ModelModule" -> ModelModule_get_output(inst._model)
      [] c = "PlanModule" -> PlanModule_get_output(inst._plan)
      [] c = "ContextPercentModule" ->
            ContextPercentModule_get_output(inst._percentage)
      [] c = "ContextBarModule" -> ContextBarModule_get_output(inst._percentage)
      [] c = "ResetTimerModule" ->
            ResetTimerModule_get_output(inst._reset_time, clock)
      [] c = "BlockUsageModule" ->
            BlockUsageModule_get_output(inst._block_start, clock)

(***************************************************************************)
(* The aggregator (section 4.4): one render pass over the enabled modules, *)
(* one module call a step.                                                 *)
(***************************************************************************)
MaxModules == 2

\* The sequences of at most k different registered names
Orders(k) ==
    {q \in UNION {[1..n -> RegistryNames] : n \in 0..k} :
        \A i, j \in 1..Len(q) : q[i] = q[j] => i = j}

\* A snapshot that has a model and tokens only, with a negative percentage
PartialContext ==
    [model  |-> {<<"g", "p", "t">>},
     plan   |-> {},
     cost   |-> {[EmptyCost EXCEPT !.context_percentage = {-1}]},
     tokens |-> {[used |-> {1}, limit |-> {4}]}]

RenderContexts == {EmptyContext, FullContext, PartialContext}

\* Steps 1 to 4 of the algorithm
Steps == <<"set_context", "refresh", "is_available", "get_output">>

\* The unexpected faults of a pass: none, or one call of one module
Faults(order) ==
    {{}} \cup {{<<order[i], Steps[k]>>} : i \in 1..Len(order), k \in 1..4}

\* The pass at its start
Pass(order, fault, instances) ==
    [pc        |-> IF order = <<>> THEN "join" ELSE "set_context",
     i         |-> 1,
     order     |-> order,
     fault     |-> fault,
     instances |-> instances,
     start     |-> instances,
     ctx_done  |-> {},
     dropped   |-> {},
     available |-> {},
     read      |-> <<>>,
     kept      |-> <<>>,
     line      |-> <<>>]

StepAfter(pc) ==
    CASE pc = "set_context" -> "refresh"
      [] pc = "refresh" -> "is_available"
      [] pc = "is_available" -> "get_output"
      [] pc = "get_output" -> "join"

\* On to the next module of the step, or to the next step
Advance(p) ==
    IF p.i < Len(p.order) THEN [p EXCEPT !.i = @ + 1]
    ELSE [p EXCEPT !.pc = StepAfter(@), !.i = 1]

\* The failing module's segment is dropped
Drop(p, name) == [p EXCEPT !.dropped = @ \cup {name}]

Segment(name, out) ==
    [name |-> name, icon |-> out.icon, text |-> out.text, color |-> out.color]

AggregatorFrame ==
    UNCHANGED <<cls, fields, now, snapshot, arg, registry, _servers>>

AggregatorCall(op, name) == Returned(op, <<name>>, NoOutput, FALSE)

\* Step 1 where a fault ends the loops: the pass goes on to the join at once
Pass_set_context_aborting ==
    /\ cls = "Aggregator"
    /\ pipeline.pc = "set_context"
    /\ LET name == pipeline.order[pipeline.i]
           p    == [pipeline EXCEPT !.ctx_done = @ \cup {name}]
       IN  /\ pipeline' =
                  IF <<name, "set_context">> \in p.fault
                  THEN [Drop(p, name) EXCEPT !.pc = "join", !.i = 1]
                  ELSE Advance([p EXCEPT !.instances[name] =
                           Instance_set_context(ClassOf(name), @, snapshot, now)])
           /\ ret' = AggregatorCall("set_context", name)
    /\ AggregatorFrame

\* Step 1, for one enabled module
Pass_set_context ==
    /\ cls = "Aggregator"
    /\ pipeline.pc = "set_context"
    /\ LET name == pipeline.order[pipeline.i]
           p    == [pipeline EXCEPT !.ctx_done = @ \cup {name}]
       IN  /\ pipeline' = Advance(
                  IF <<name, "set_context">> \in p.fault THEN Drop(p, name)
                  ELSE [p EXCEPT !.instances[name] =
                           Instance_set_context(ClassOf(name), @, snapshot, now)])
           /\ ret' = AggregatorCall("set_context", name)
    /\ AggregatorFrame

\* Step 2, for one module: refresh() when its interval has passed (due)
Pass_refresh(due) ==
    /\ cls = "Aggregator"
    /\ pipeline.pc = "refresh"
    /\ LET name == pipeline.order[pipeline.i]
           p    == pipeline
       IN  /\ pipeline' = Advance(
                  IF name \in p.dropped \/ ~due THEN p
                  ELSE IF <<name, "refresh">> \in p.fault THEN Drop(p, name)
                  ELSE [p EXCEPT !.instances[name] =
                           Instance_refresh(ClassOf(name), @)])
           /\ ret' = AggregatorCall("refresh", name)
    /\ AggregatorFrame

\* Step 3 that skips no module
Pass_is_available_unfiltered ==
    /\ cls = "Aggregator"
    /\ pipeline.pc = "is_available"
    /\ LET name == pipeline.order[pipeline.i]
           p    == pipeline
       IN  /\ pipeline' = Advance(
                  IF name \in p.dropped THEN p
                  ELSE IF <<name, "is_available">> \in p.fault THEN Drop(p, name)
                  ELSE [p EXCEPT !.available = @ \cup {name}])
           /\ ret' = AggregatorCall("is_available", name)
    /\ AggregatorFrame

\* Step 3, for one module
Pass_is_available ==
    /\ cls = "Aggregator"
    /\ pipeline.pc = "is_available"
    /\ LET name == pipeline.order[pipeline.i]
           p    == pipeline
       IN  /\ pipeline' = Advance(
                  IF name \in p.dropped THEN p
                  ELSE IF <<name, "is_available">> \in p.fault THEN Drop(p, name)
                  ELSE IF Instance_is_available(ClassOf(name), p.instances[name])
                  THEN [p EXCEPT !.available = @ \cup {name}]
                  ELSE p)
           /\ ret' = AggregatorCall("is_available", name)
    /\ AggregatorFrame

\* Step 4, for one module
Pass_get_output ==
    /\ cls = "Aggregator"
    /\ pipeline.pc = "get_output"
    /\ LET name == pipeline.order[pipeline.i]
           p    == pipeline
           out  == Instance_get_output(ClassOf(name), p.instances[name], now)
       IN  /\ pipeline' = Advance(
                  IF name \in p.dropped \/ name \notin p.available THEN p
                  ELSE IF <<name, "get_output">> \in p.fault THEN Drop(p, name)
                  ELSE IF out.status = "DISABLED" \/ out.text = <<>>
                  THEN [p EXCEPT !.read = Append(@, name)]
                  ELSE [p EXCEPT !.read = Append(@, name),
                                 !.kept = Append(@, Segment(name, out))])
           /\ ret' = AggregatorCall("get_output", name)
    /\ AggregatorFrame

\* Step 5
Pass_join ==
    /\ cls = "Aggregator"
    /\ pipeline.pc = "join"
    /\ pipeline' = [pipeline EXCEPT !.pc = "done", !.line = pipeline.kept]
    /\ ret' = AggregatorCall("join", "")
    /\ AggregatorFrame

\* The instances before the pass: new, or given the snapshot of a pass before.
InstancesAfter(previous) ==
    [name \in RegistryNames |->
        IF previous = {} THEN NewInstance
        ELSE Instance_set_context(ClassOf(name), NewInstance, The(previous),
                                  StartTime)]

InitRender ==
    /\ cls = "Aggregator"
    /\ _context = EmptyContext
    /\ _model = <<>>
    /\ _plan = <<>>
    /\ _percentage = 0
    /\ _reset_time = {}
    /\ _block_start = {}
    /\ now = StartTime
    /\ ret = Void("__init__")
    /\ arg = 0
    /\ _servers = <<>>
    /\ snapshot \in RenderContexts
    /\ \E order \in Orders(MaxModules) :
          /\ registry = [modules |-> RegistryNames, enabled |-> order]
          /\ \E fault \in Faults(order), previous \in Opt(RenderContexts) :
                pipeline = Pass(ModuleRegistry_get_enabled(registry), fault,
                                InstancesAfter(previous))

NextRender ==
    \/ Pass_set_context
    \/ \E due \in BOOLEAN : Pass_refresh(due)
    \/ Pass_is_available
    \/ Pass_get_output
    \/ Pass_join

SpecRender == InitRender /\ [][NextRender]_vars

(***************************************************************************)
(* MCPStatusModule (tests/unit/test_mcp_status.py, sections 4 and 7).      *)
(* _servers is the dict of the known servers, as the sequence of its       *)
(* [name, status] items.  The texts are in English here: "no MCP servers"  *)
(* for the text of no server, "running" and "error" for the two words.     *)
(***************************************************************************)
MaxServers == 3

ServerNames == [i \in 1..MaxServers |-> <<"server", i>>]

RECURSIVE Present(_, _)
\* The servers a probe lists: those of ServerNames that f does not leave out
Present(f, i) ==
    IF i > MaxServers THEN <<>>
    ELSE (IF f[i] = "absent" THEN <<>>
          ELSE <<[name |-> ServerNames[i], status |-> f[i]]>>)
            \o Present(f, i + 1)

\* What a probe can find: any servers, each running, unknown or error
ServerLists ==
    {Present(f, 1) :
        f \in [1..MaxServers -> {"absent", "running", "unknown", "error"}]}

\* The outcomes of a probe: the servers found, or a failure
Probes ==
    {[ok |-> TRUE, why |-> "", servers |-> l] : l \in ServerLists}
        \cup {[ok |-> FALSE, why |-> w, servers |-> <<>>] :
                 w \in {"command not found", "non-zero exit", "timeout"}}

\* _detect_servers: a probe that fails yields no server
MCPStatusModule_detect_servers(probe) ==
    IF probe.ok THEN probe.servers ELSE <<>>

CountStatus(servers, status) ==
    Cardinality({i \in 1..Len(servers) : servers[i].status = status})

RunningText(k, n) ==
    NatToStr(k) \o <<"/">> \o NatToStr(n) \o <<" ", "r", "u", "n", "n", "i", "n", "g">>

\* get_output that looks at the running count before the errors
MCPStatusModule_get_output_count_first(servers) ==
    LET n == Len(servers)
        k == CountStatus(servers, "running")
        e == CountStatus(servers, "error")
    IN  IF n = 0
        THEN {ModuleOutput(<<"n", "o", " ", "M", "C", "P", " ", "s", "e", "r", "v", "e", "r", "s">>, "plug", "gray",
                           "SUCCESS", {})}
        ELSE IF k = n
        THEN {ModuleOutput(RunningText(k, n), "green_circle", "green",
                           "SUCCESS", {})}
        ELSE IF k > 0
        THEN {ModuleOutput(RunningText(k, n), "yellow_circle", "yellow",
                           "WARNING", {})}
        ELSE {ModuleOutput(NatToStr(e) \o <<" ", "e", "r", "r", "o", "r">>, "red_circle", "red",
                           "ERROR", {})}

\* MCPStatusModule.get_output: the outputs it can return for the servers.
\* Neither the spec nor the tests say what it returns for servers of which
\* none is running and none in error: the warning or the error tier.
MCPStatusModule_get_output(servers) ==
    LET n == Len(servers)
        k == CountStatus(servers, "running")
        e == CountStatus(servers, "error")
    IN  IF e > 0
        THEN {ModuleOutput(NatToStr(e) \o <<" ", "e", "r", "r", "o", "r">>, "red_circle", "red",
                           "ERROR", {})}
        ELSE IF n = 0
        THEN {ModuleOutput(<<"n", "o", " ", "M", "C", "P", " ", "s", "e", "r", "v", "e", "r", "s">>, "plug", "gray",
                           "SUCCESS", {})}
        ELSE IF k = n
        THEN {ModuleOutput(RunningText(k, n), "green_circle", "green",
                           "SUCCESS", {})}
        ELSE IF k > 0
        THEN {ModuleOutput(RunningText(k, n), "yellow_circle", "yellow",
                           "WARNING", {})}
        ELSE {ModuleOutput(RunningText(k, n), "yellow_circle", "yellow",
                           "WARNING", {}),
              ModuleOutput(RunningText(k, n), "red_circle", "red", "ERROR", {})}

\* MCPStatusModule.is_available
MCPStatusModule_is_available == TRUE

MCPFrame == UNCHANGED <<cls, fields, now, snapshot, registry, pipeline>>

\* initialize() that adds the servers found to those known
Call_MCPStatusModule_initialize_accumulating(k) ==
    /\ cls = "MCPStatusModule"
    /\ _servers' = _servers \o SelectSeq(MCPStatusModule_detect_servers(snapshot[k]),
                        LAMBDA x : \A i \in 1..Len(_servers) : _servers[i].name # x.name)
    /\ arg' = k
    /\ ret' = Void("initialize")
    /\ MCPFrame

\* initialize(), its probe having the outcome snapshot[k]
Call_MCPStatusModule_initialize(k) ==
    /\ cls = "MCPStatusModule"
    /\ _servers' = MCPStatusModule_detect_servers(snapshot[k])
    /\ arg' = k
    /\ ret' = Void("initialize")
    /\ MCPFrame

\* refresh(), its probe having the outcome snapshot[k]
Call_MCPStatusModule_refresh(k) ==
    /\ cls = "MCPStatusModule"
    /\ _servers' = MCPStatusModule_detect_servers(snapshot[k])
    /\ arg' = k
    /\ ret' = Void("refresh")
    /\ MCPFrame

Call_MCPStatusModule_cleanup ==
    /\ cls = "MCPStatusModule"
    /\ _servers' = <<>>
    /\ ret' = Void("cleanup")
    /\ UNCHANGED arg
    /\ MCPFrame

Call_MCPStatusModule_get_output ==
    /\ cls = "MCPStatusModule"
    /\ \E out \in MCPStatusModule_get_output(_servers) :
          ret' = Returned("get_output", <<>>, out, FALSE)
    /\ UNCHANGED <<_servers, arg>>
    /\ MCPFrame

Call_MCPStatusModule_is_available ==
    /\ cls = "MCPStatusModule"
    /\ ret' = Returned("is_available", <<>>, NoOutput, MCPStatusModule_is_available)
    /\ UNCHANGED <<_servers, arg>>
    /\ MCPFrame

\* A new MCPStatusModule, and the outcomes its probes are going to have:
\* each probe has the one or the other.
InitMCP ==
    /\ cls = "MCPStatusModule"
    /\ _context = EmptyContext
    /\ _model = <<>>
    /\ _plan = <<>>
    /\ _percentage = 0
    /\ _reset_time = {}
    /\ _block_start = {}
    /\ now = StartTime
    /\ ret = Void("__init__")
    /\ arg = 0
    /\ registry = EmptyRegistry
    /\ pipeline = NoPass
    /\ _servers = <<>>
    /\ snapshot \in Probes \X Probes

NextMCP ==
    \/ \E k \in 1..2 : Call_MCPStatusModule_initialize(k)
    \/ \E k \in 1..2 : Call_MCPStatusModule_refresh(k)
    \/ Call_MCPStatusModule_cleanup
    \/ Call_MCPStatusModule_get_output
    \/ Call_MCPStatusModule_is_available

SpecMCP == InitMCP /\ [][NextMCP]_vars

(***************************************************************************)
(* What get_output() and is_available() return in the current state.       *)
(***************************************************************************)
get_output ==
    CASE cls = "ModelModule" -> ModelModule_get_output(_model)
      [] cls = "PlanModule" -> PlanModule_get_output(_plan)
      [] cls = "ContextPercentModule" -> ContextPercentModule_get_output(_percentage)
      [] cls = "ContextBarModule" -> ContextBarModule_get_output(_percentage)
      [] cls = "ResetTimerModule" -> ResetTimerModule_get_output(_reset_time, now)
      [] cls = "BlockUsageModule" -> BlockUsageModule_get_output(_block_start, now)

is_available ==
    CASE cls = "ModelModule" -> ModelModule_is_available(_model)
      [] cls = "PlanModule" -> PlanModule_is_available(_plan)
      [] cls = "ContextPercentModule" -> ContextPercentModule_is_available(_percentage)
      [] cls = "ContextBarModule" -> ContextBarModule_is_available(_percentage)
      [] cls = "ResetTimerModule" -> ResetTimerModule_is_available(_reset_time)
      [] cls = "BlockUsageModule" -> BlockUsageModule_is_available(_block_start)

ContextClasses == {"ContextPercentModule", "ContextBarModule"}

\* The number of c in the string s
Count(c, s) == Cardinality({i \in 1..Len(s) : s[i] = c})

(***************************************************************************)
(* C1                                                                      *)
(***************************************************************************)
\* C1: in every state reached by set_context and refresh calls, for each of
\* the six modules, is_available() == False implies that get_output() has
\* status DISABLED.
C1_AvailabilityAgreement ==
    ~is_available => get_output.status = "DISABLED"

(***************************************************************************)
(* C2                                                                      *)
(***************************************************************************)
\* The status and color the other context module returns for the snapshot.
OtherContextModuleOutput(context) ==
    IF cls = "ContextPercentModule"
    THEN ContextBarModule_get_output(ContextBarModule_calculate_percentage(context))
    ELSE ContextPercentModule_get_output(
             ContextPercentModule_calculate_percentage(context))

\* C2: a non-zero percentage p held by ContextPercentModule or ContextBarModule
\* is classified p < 70: SUCCESS/green, 70 <= p < 90: WARNING/yellow, p >= 90:
\* ERROR/red, by get_output() as called and as it would return now; and for the
\* snapshot it was given the other module returns the same status and color.
C2_ThreeTiers ==
    (cls \in ContextClasses /\ _percentage # 0) =>
        LET p == _percentage
            o == get_output
            tier == IF p < 70 THEN <<"SUCCESS", "green">>
                    ELSE IF p < 90 THEN <<"WARNING", "yellow">>
                    ELSE <<"ERROR", "red">>
        IN  /\ <<o.status, o.color>> = tier
            /\ ret.op = "get_output" => <<ret.out.status, ret.out.color>> = tier
            /\ _context = snapshot =>
                  LET other == OtherContextModuleOutput(snapshot)
                  IN  <<other.status, other.color>> = tier

C2_Witness ==
    /\ cls = "ContextBarModule"
    /\ _percentage = 70
    /\ ret.op = "get_output"
    /\ ret.out.status = "WARNING"
    /\ ret.out.color = "yellow"

(***************************************************************************)
(* C3                                                                      *)
(***************************************************************************)
\* The percentage the claim gives for a snapshot.
C3_Percentage(context) ==
    LET cost_data   == GetCost(context)
        tokens_data == GetTokens(context)
        used        == GetOr(tokens_data.used, 0)
        limit       == GetOr(tokens_data.limit, 0)
    IN  IF cost_data.context_percentage # {} THEN The(cost_data.context_percentage)
        ELSE IF limit > 0 THEN (100 * used) \div limit
        ELSE 0

\* C3: after set_context(snapshot) the percentage held by ContextPercentModule
\* and ContextBarModule is cost.context_percentage when present, otherwise
\* floor(100 * used / limit) when tokens.limit > 0, otherwise 0.
C3_PercentageIsFloor ==
    (cls \in ContextClasses /\ ret.op = "set_context") =>
        _percentage = C3_Percentage(snapshot)

\* The same, for snapshots whose tokens.used is not negative.
C3_PercentageIsFloorOfNonNegative ==
    (/\ cls \in ContextClasses
     /\ ret.op = "set_context"
     /\ GetOr(GetTokens(snapshot).used, 0) >= 0) =>
        _percentage = C3_Percentage(snapshot)

(***************************************************************************)
(* C4                                                                      *)
(***************************************************************************)
\* The bar width of the module under test.
BarWidth ==
    IF cls = "ContextBarModule" THEN ContextBarModule_bar_width
    ELSE BlockUsageModule_bar_width

\* C4: for a percentage p in [0, 100], _render_bar of ContextBarModule (width
\* 10) and of BlockUsageModule (width 8) draws filled = floor(width * p / 100)
\* filled glyphs and empty = width - filled empty glyphs, so the two add up to
\* width, p = 0 draws no filled glyph and p = 100 draws no empty glyph.
C4_BarGlyphs ==
    (ret.op = "_render_bar" /\ arg \in 0..100) =>
        LET filled == Count("#", ret.text)
            empty  == Count(".", ret.text)
        IN  /\ filled = (BarWidth * arg) \div 100
            /\ empty = BarWidth - filled
            /\ filled + empty = BarWidth
            /\ arg = 0 => filled = 0
            /\ arg = 100 => empty = 0

C4_Witness ==
    /\ cls = "ContextBarModule"
    /\ ret.op = "_render_bar"
    /\ arg = 79
    /\ Count("#", ret.text) = 7
    /\ Count(".", ret.text) = 3

(***************************************************************************)
(* C5                                                                      *)
(***************************************************************************)
\* The short format of s seconds as the claim words it.
C5_ShortFormat(s) ==
    IF s >= 3600
    THEN IntToStr(s \div 3600) \o <<"h", " ">> \o IntToStr((s % 3600) \div 60)
            \o <<"m">>
    ELSE IF s >= 60
    THEN IntToStr(s \div 60) \o <<"m", " ">> \o IntToStr(s % 60) \o <<"s">>
    ELSE IntToStr(s) \o <<"s">>

\* C5: the text ResetTimerModule.get_output() returns is the short format of
\* the seconds left until the reset time, "Xh Ym" from 3600 s, "Xm Ys" from
\* 60 s and "Xs" below, and a reset time that is not in the future gives "0s".
C5_ShortDuration ==
    (cls = "ResetTimerModule" /\ ret.op = "get_output" /\ _reset_time # {}) =>
        LET left == The(_reset_time) - now
        IN  /\ left >= 0 => ret.out.text = C5_ShortFormat(left)
            /\ left <= 0 => ret.out.text = <<"0", "s">>

C5_Witness ==
    /\ cls = "ResetTimerModule"
    /\ ret.op = "get_output"
    /\ _reset_time # {}
    /\ The(_reset_time) < now
    /\ ret.out.text = <<"0", "s">>

(***************************************************************************)
(* C6                                                                      *)
(***************************************************************************)
\* The family names in the order the claim gives them.
C6_Families ==
    << <<"s", "o", "n", "n", "e", "t">>, <<"o", "p", "u", "s">>,
       <<"h", "a", "i", "k", "u">> >>

C6_FamilyNames ==
    << <<"S", "o", "n", "n", "e", "t">>, <<"O", "p", "u", "s">>,
       <<"H", "a", "i", "k", "u">> >>

\* The families that occur in raw, case-insensitively, by position in the order.
C6_Occurring(raw) == {i \in 1..3 : Contains(Lower(raw), C6_Families[i])}

\* The whitespace-delimited tokens of raw that begin with a digit.
C6_DigitTokens(raw) ==
    {i \in 1..Len(Split(raw)) : IsDigit(Split(raw)[i][1])}

C6_First(S) == CHOOSE i \in S : \A k \in S : i <= k

C6_Claude == <<"C", "l", "a", "u", "d", "e">>

\* C6, the rule with what it says for a "claude" string left open as a
\* parameter: the held name is the first occurring family; else, when "claude"
\* occurs, claude_name; else the raw string; "" is held for "" and the module
\* is then unavailable.
C6_Rule(raw, claude_name_ok) ==
    IF raw = <<>> THEN _model = <<>> /\ ~is_available
    ELSE IF C6_Occurring(raw) # {}
    THEN _model = C6_FamilyNames[C6_First(C6_Occurring(raw))]
    ELSE IF Contains(Lower(raw), Lower(C6_Claude))
    THEN claude_name_ok
    ELSE _model = raw

\* C6: after set_context the name ModelModule holds for the raw model string
\* is, matching case-insensitively, the capitalized first of the families
\* sonnet, opus, haiku (in that order) that occurs in it; otherwise, if
\* "claude" occurs, "Claude " followed by the first whitespace-delimited token
\* that begins with a digit; otherwise the raw string unchanged; and the
\* empty string gives "" and an unavailable module.
C6_ModelName ==
    (cls = "ModelModule" /\ ret.op # "__init__") =>
        LET raw == GetOr(_context.model, <<>>)
        IN  C6_Rule(raw,
                /\ C6_DigitTokens(raw) # {}
                /\ _model = C6_Claude \o <<" ">>
                       \o Split(raw)[C6_First(C6_DigitTokens(raw))])

\* C6 amended: as C6, and when "claude" occurs but no whitespace-delimited
\* token begins with a digit, the name is "Claude".
C6_ModelNameOrPlainClaude ==
    (cls = "ModelModule" /\ ret.op # "__init__") =>
        LET raw == GetOr(_context.model, <<>>)
        IN  C6_Rule(raw,
                IF C6_DigitTokens(raw) # {}
                THEN _model = C6_Claude \o <<" ">>
                        \o Split(raw)[C6_First(C6_DigitTokens(raw))]
                ELSE _model = C6_Claude)

C6_Witness ==
    /\ cls = "ModelModule"
    /\ ret.op = "set_context"
    /\ Contains(Lower(GetOr(_context.model, <<>>)), Lower(C6_Claude))
    /\ C6_Occurring(GetOr(_context.model, <<>>)) = {}
    /\ C6_DigitTokens(GetOr(_context.model, <<>>)) = {}
    /\ _model = C6_Claude

(***************************************************************************)
(* C7                                                                      *)
(***************************************************************************)
\* The signal of the module under test is absent from the snapshot.
C7_SignalAbsent(context) ==
    CASE cls = "ModelModule" -> context.model = {}
      [] cls = "PlanModule" -> context.plan = {}
      [] cls \in ContextClasses ->
            /\ GetCost(context).context_percentage = {}
            /\ GetOr(GetTokens(context).limit, 0) = 0
      [] cls = "BlockUsageModule" -> GetCost(context).block_start_time = {}
      [] OTHER -> FALSE

\* C7: when the snapshot given last (or no snapshot at all, before any
\* set_context) lacks the module's signal, ModelModule, PlanModule,
\* ContextPercentModule, ContextBarModule and BlockUsageModule return status
\* DISABLED with empty text, icon and color from get_output() and False
\* from is_available().
C7_AbsentSignalDisables ==
    C7_SignalAbsent(_context) =>
        /\ get_output.status = "DISABLED"
        /\ get_output.text = <<>>
        /\ get_output.icon = ""
        /\ get_output.color = ""
        /\ ~is_available

(***************************************************************************)
(* C8                                                                      *)
(***************************************************************************)
\* C8: after set_context with a snapshot that has no cost.next_reset_time,
\* ResetTimerModule.is_available() returns False and get_output() has status
\* DISABLED.
C8_NoResetTimeDisables ==
    (/\ cls = "ResetTimerModule"
     /\ ret.op # "__init__"
     /\ GetCost(_context).next_reset_time = {}) =>
        /\ ~is_available
        /\ get_output.status = "DISABLED"

(***************************************************************************)
(* C9                                                                      *)
(***************************************************************************)
\* C9: a percentage of 0 computed from valid token data (tokens.used = 0 and
\* tokens.limit > 0, no cost.context_percentage) leaves ContextPercentModule
\* and ContextBarModule available, with a get_output() status other than
\* DISABLED, whereas a snapshot with no tokens.limit leaves them unavailable.
C9_ZeroPercentIsAvailable ==
    (cls \in ContextClasses /\ GetCost(_context).context_percentage = {}) =>
        /\ (GetTokens(_context).used = {0}
              /\ GetOr(GetTokens(_context).limit, 0) > 0) =>
                (is_available /\ get_output.status # "DISABLED")
        /\ GetTokens(_context).limit = {} => ~is_available

(***************************************************************************)
(* C10                                                                     *)
(***************************************************************************)
\* C10: a call of get_output() or is_available() leaves every field of the
\* module as it was, and of two get_output() calls with nothing in between
\* the second returns what the first returned.
C10_GettersArePure ==
    [][ret'.op \in {"get_output", "is_available"} =>
          /\ fields' = fields
          /\ (ret.op = "get_output" /\ ret'.op = "get_output" /\ now' = now)
                => ret'.out = ret.out]_vars

C10_Witness ==
    /\ cls = "ResetTimerModule"
    /\ ret.op = "get_output"
    /\ _reset_time # {}
    /\ The(_reset_time) < now
    /\ ret.out.status = "WARNING"
    /\ ret.out.color = "red"

(***************************************************************************)
(* C11                                                                     *)
(***************************************************************************)
\* The name a registry call was made with.
C11_Name(call) == call.text[1]

\* C11: after any sequence of register, enable and disable calls,
\* get_enabled() lists each enabled name exactly once, in the order the names
\* were enabled: enable of a registered name that is not enabled appends it,
\* enable of an enabled name and disable of a disabled name change nothing,
\* disable takes the name out and keeps the order of the rest, register does
\* not touch the list.  A run of _register_modules on a registry that holds
\* its names already leaves the registry as it is (a name disabled in between
\* stays disabled), and on the empty registry it gives the order model, plan,
\* context_pct, context_bar.
C11_EnabledOrder ==
    [][LET before == ModuleRegistry_get_enabled(registry)
           after  == ModuleRegistry_get_enabled(registry')
           name   == C11_Name(ret')
       IN  /\ \A i, k \in 1..Len(after) : after[i] = after[k] => i = k
           /\ (ret'.op = "enable" /\ InSeq(name, before)) => registry' = registry
           /\ (ret'.op = "enable" /\ ~InSeq(name, before)
                 /\ name \in registry.modules) => after = Append(before, name)
           /\ (ret'.op = "disable" /\ ~InSeq(name, before)) => registry' = registry
           /\ (ret'.op = "disable" /\ InSeq(name, before)) =>
                 /\ ~InSeq(name, after)
                 /\ after = SelectSeq(before, LAMBDA n : n # name)
           /\ ret'.op \in {"register", "has_module"} => after = before
           /\ (ret'.op = "_register_modules" /\ name = "model") =>
                 /\ (\A i \in 1..4 : ModelModuleNames[i] \in registry.modules)
                       => registry' = registry
                 /\ registry = EmptyRegistry => after = ModelModuleNames
           /\ (ret'.op = "_register_modules" /\ name = "time_modules") =>
                 ((\A i \in 1..2 : TimeModuleNames[i] \in registry.modules)
                       => registry' = registry)
    ]_vars

\* _register_modules of model.py has run again after "plan" was disabled.
C11_Witness ==
    /\ cls = "ModuleRegistry"
    /\ ret.op = "_register_modules"
    /\ C11_Name(ret) = "model"
    /\ ModuleRegistry_get_enabled(registry) = <<"model", "context_pct", "context_bar">>

(***************************************************************************)
(* C12                                                                     *)
(***************************************************************************)
\* The final line has a segment for the module called name.
HasSegment(name) ==
    \E k \in 1..Len(pipeline.line) : pipeline.line[k].name = name

\* The module's is_available() is true and its get_output() is not DISABLED
\* and has a text.
C12_Shows(name) ==
    LET c    == ClassOf(name)
        inst == pipeline.instances[name]
        out  == Instance_get_output(c, inst, now)
    IN  /\ Instance_is_available(c, inst)
        /\ out.status # "DISABLED"
        /\ out.text # <<>>

\* C12: in a render pass without a fault, the final line has a segment for a
\* module if and only if the module is enabled, its is_available() is true and
\* its get_output() has a status other than DISABLED and a non-empty text; the
\* segments are in the registry's enabled order and carry the icon, text and
\* color of the output; and no get_output() is read before set_context was
\* called on every enabled module.
C12_RenderPass ==
    cls = "Aggregator" =>
        LET enabled == ModuleRegistry_get_enabled(registry)
        IN  /\ pipeline.read # <<>> =>
                  \A i \in 1..Len(enabled) : enabled[i] \in pipeline.ctx_done
            /\ (pipeline.pc = "done" /\ pipeline.fault = {}) =>
                  /\ \A name \in RegistryNames :
                        HasSegment(name) <=>
                            (InSeq(name, enabled) /\ C12_Shows(name))
                  /\ [k \in 1..Len(pipeline.line) |-> pipeline.line[k].name]
                        = SelectSeq(enabled, HasSegment)
                  /\ \A k \in 1..Len(pipeline.line) :
                        pipeline.line[k] =
                            Segment(pipeline.line[k].name,
                                    Instance_get_output(
                                        ClassOf(pipeline.line[k].name),
                                        pipeline.instances[pipeline.line[k].name],
                                        now))

\* context_bar is enabled ahead of model but unavailable: only model shows.
C12_Witness ==
    /\ cls = "Aggregator"
    /\ pipeline.pc = "done"
    /\ pipeline.fault = {}
    /\ snapshot = PartialContext
    /\ ModuleRegistry_get_enabled(registry) = <<"context_bar", "model">>
    /\ Len(pipeline.line) = 1
    /\ pipeline.line[1].name = "model"

(***************************************************************************)
(* C13                                                                     *)
(***************************************************************************)
\* The segments of a pass over order without any fault, from the instances
\* as they are before the pass.
RECURSIVE C13_Segments(_, _, _, _, _)
C13_Segments(order, i, instances, context, clock) ==
    IF i > Len(order) THEN <<>>
    ELSE LET name == order[i]
             c    == ClassOf(name)
             inst == Instance_set_context(c, instances[name], context, clock)
             out  == Instance_get_output(c, inst, clock)
         IN  (IF /\ Instance_is_available(c, inst)
                 /\ out.status # "DISABLED"
                 /\ out.text # <<>>
              THEN <<Segment(name, out)>> ELSE <<>>)
                \o C13_Segments(order, i + 1, instances, context, clock)

\* C13: when one module faults in set_context, refresh, is_available or
\* get_output, the pass still runs to its end (a pass that is not done is at
\* the join or at a module of one of the four steps, where it can take its
\* next step), the final line has no segment of the faulting module, and it
\* is the line of the pass over the other enabled modules alone.
C13_FailureIsolation ==
    cls = "Aggregator" =>
        /\ pipeline.pc # "done" =>
              \/ pipeline.pc = "join"
              \/ /\ \E k \in 1..4 : pipeline.pc = Steps[k]
                 /\ pipeline.i \in 1..Len(pipeline.order)
        /\ (pipeline.pc = "done" /\ pipeline.dropped # {}) =>
              /\ \A name \in pipeline.dropped : ~HasSegment(name)
              /\ pipeline.line =
                    C13_Segments(
                        SelectSeq(pipeline.order,
                                  LAMBDA n : n \notin pipeline.dropped),
                        1, pipeline.start, snapshot, now)

\* model faulted in set_context, plan after it shows.
C13_Witness ==
    /\ cls = "Aggregator"
    /\ pipeline.pc = "done"
    /\ pipeline.order = <<"model", "plan">>
    /\ pipeline.fault = {<<"model", "set_context">>}
    /\ pipeline.dropped = {"model"}
    /\ snapshot = FullContext
    /\ Len(pipeline.line) = 1
    /\ pipeline.line[1].name = "plan"

(***************************************************************************)
(* C14                                                                     *)
(***************************************************************************)
\* "k/n running"
C14_Text(k, n) == IntToStr(k) \o <<"/">> \o IntToStr(n) \o <<" ", "r", "u", "n", "n", "i", "n", "g">>

\* C14: for n known servers of which k are running, get_output() returns the
\* error tier (ERROR, red) if any server has status error, whatever the
\* running count; otherwise the text of no server with SUCCESS and gray if
\* n = 0; otherwise "n/n running" with SUCCESS and green if k = n; otherwise
\* "k/n running" with WARNING and yellow if at least one is running.
C14_ServerTiers ==
    (cls = "MCPStatusModule" /\ ret.op = "get_output") =>
        LET n == Len(_servers)
            k == Cardinality({i \in 1..n : _servers[i].status = "running"})
            e == Cardinality({i \in 1..n : _servers[i].status = "error"})
            o == ret.out
        IN  IF e > 0 THEN o.status = "ERROR" /\ o.color = "red"
            ELSE IF n = 0
            THEN /\ o.text = <<"n", "o", " ", "M", "C", "P", " ", "s", "e", "r", "v", "e", "r", "s">>
                 /\ o.status = "SUCCESS" /\ o.color = "gray"
            ELSE IF k = n
            THEN /\ o.text = C14_Text(n, n)
                 /\ o.status = "SUCCESS" /\ o.color = "green"
            ELSE k >= 1 =>
                 /\ o.text = C14_Text(k, n)
                 /\ o.status = "WARNING" /\ o.color = "yellow"

\* Two servers running and one in error: the error tier.
C14_Witness ==
    /\ cls = "MCPStatusModule"
    /\ ret.op = "get_output"
    /\ Len(_servers) = 3
    /\ _servers[1].status = "running"
    /\ _servers[2].status = "running"
    /\ _servers[3].status = "error"
    /\ ret.out.status = "ERROR"
    /\ ret.out.color = "red"

(***************************************************************************)
(* C15                                                                     *)
(***************************************************************************)
\* C15: in any sequence of initialize(), refresh() and cleanup() calls, the
\* servers known after initialize() or refresh() are exactly those the call's
\* probe found (none is kept from an earlier probe), none when the probe
\* failed (command not found, non-zero exit, timeout), the call returning all
\* the same, and after cleanup() no server is known.
C15_ServersFollowProbe ==
    [][cls = "MCPStatusModule" =>
          /\ ret'.op \in {"initialize", "refresh"} =>
                LET probe == snapshot[arg']
                IN  /\ probe.ok => _servers' = probe.servers
                    /\ ~probe.ok => _servers' = <<>>
          /\ ret'.op = "cleanup" => _servers' = <<>>
      ]_vars

\* refresh() found one server where the other probe finds two.
C15_Witness ==
    /\ cls = "MCPStatusModule"
    /\ ret.op = "refresh"
    /\ arg = 2
    /\ Len(snapshot[1].servers) = 2
    /\ Len(snapshot[2].servers) = 1
    /\ Len(_servers) = 1

(***************************************************************************)
(* C16                                                                     *)
(***************************************************************************)
\* The snapshot carries a valid cost.block_start_time: a timestamp that is
\* not 0 (which the module reads as none) and that is a representable time.
C16_HasValidBlockStart(context) ==
    /\ GetCost(context).block_start_time # {}
    /\ The(GetCost(context).block_start_time) # 0
    /\ FromTimestampOK(The(GetCost(context).block_start_time))

\* C16: after any sequence of set_context calls BlockUsageModule is available
\* if and only if the most recent snapshot carries a valid
\* cost.block_start_time; a snapshot without block_start_time makes it
\* unavailable, with a DISABLED output, even when an earlier snapshot had one.
C16_LatestSnapshotDecides ==
    (cls = "BlockUsageModule" /\ ret.op # "__init__") =>
        /\ is_available <=> C16_HasValidBlockStart(_context)
        /\ GetCost(_context).block_start_time = {} =>
              (~is_available /\ get_output.status = "DISABLED")

(***************************************************************************)
(* C17                                                                     *)
(***************************************************************************)
\* C17: in every state reachable through set_context, the bar in the text of
\* ContextBarModule and of BlockUsageModule is of fixed width: the filled
\* glyphs and the empty glyphs in it number the module's bar width together
\* (10 and 8), and neither of the two counts the bar is drawn from is
\* negative.
C17_FixedWidthBar ==
    (/\ cls \in {"ContextBarModule", "BlockUsageModule"}
     /\ get_output.status # "DISABLED") =>
        LET text   == get_output.text
            filled == IF cls = "ContextBarModule"
                      THEN ContextBarModule_filled(_percentage)
                      ELSE BlockUsageModule_filled(
                               BlockUsageModule_calculate_usage(_block_start, now))
        IN  /\ Count("#", text) + Count(".", text) = BarWidth
            /\ filled >= 0
            /\ BarWidth - filled >= 0

(***************************************************************************)
(* C18                                                                     *)
(***************************************************************************)
\* C18: with a block start present, the usage BlockUsageModule computes at
\* any clock value lies in [0, 100]: it is 0 when the start is in the future,
\* 100 when at least the window of 5 hours has elapsed, and 100 * elapsed /
\* window in between (to a thousandth of a percent); the module is available
\* and its output is not DISABLED, also when the usage is 0.
C18_UsageInRange ==
    (cls = "BlockUsageModule" /\ _block_start # {}) =>
        LET usage   == BlockUsageModule_calculate_usage(_block_start, now)
            elapsed == now - The(_block_start)
            window  == 5 * 3600
            milli   == FTrunc(FMulInt(usage, 1000))
        IN  /\ ~FLess(usage, FZero)
            /\ ~FLess(FromInt(100), usage)
            /\ elapsed < 0 => usage = FZero
            /\ elapsed >= window => usage = FromInt(100)
            /\ (0 <= elapsed /\ elapsed < window) =>
                  /\ 100000 * elapsed - window <= milli * window
                  /\ milli * window <= 100000 * elapsed + window
            /\ is_available
            /\ get_output.status # "DISABLED"
            /\ ret.op = "is_available" => ret.avail
            /\ ret.op = "get_output" => ret.out.status # "DISABLED"

\* The block starts now: usage 0, and the bar is shown.
C18_Witness ==
    /\ cls = "BlockUsageModule"
    /\ _block_start = {now}
    /\ ret.op = "get_output"
    /\ ret.out.status = "SUCCESS"
    /\ Count("#", ret.out.text) = 0
    /\ Count(".", ret.out.text) = 8

=============================================================================
